---- MODULE Spec2Model ----
(***************************************************************************)
(* A model of graphene_mongo: the object type builder (types.py) and the   *)
(* connection field (fields.py).                                           *)
(*                                                                         *)
(* Four specifications share the variables:                                *)
(*   SpecFields    construct_fields, default_filter_args and args over     *)
(*                 every small model schema;                               *)
(*   Spec          class declarations (__init_subclass_with_meta__)        *)
(*                 with every combination of connection options, and       *)
(*                 is_type_of on the declared type;                        *)
(*   SpecRegistry  sequences of declarations and registry resets;          *)
(*   SpecResolve   connection_resolver over every small collection.        *)
(*                                                                         *)
(* Python values are encoded so that TLC never compares values of          *)
(* different shapes: an optional value is a set with at most one element   *)
(* ({} is None / not supplied), an outcome that may raise is a record      *)
(* with an ok flag.                                                        *)
(***************************************************************************)
EXTENDS Integers, Sequences, FiniteSets, TLC

VARIABLES
    schema,       \* model name -> declared fields, in order (get_model_fields)
    otype,        \* SpecFields: the last construct_fields call and its result
    conn_field,   \* SpecFields: the connection field bound to otype
    registry,     \* registry id -> (model name -> set holding the type id)
    ntypes,       \* number of classes declared so far (class identities)
    built,        \* the last class declaration: its Meta options and outcome
    type_check,   \* the last is_type_of call and its outcome
    expected,     \* history: what each registry should hold
    collection,   \* the store: the model's documents in insertion order
    request,      \* the query being resolved: upstream result and arguments
    resolution    \* the connection_resolver call for it and its outcome

vars == <<schema, otype, conn_field, registry, ntypes, built, type_check,
          expected, collection, request, resolution>>

typeVars == <<registry, ntypes, built, type_check, expected>>
fieldVars == <<otype, conn_field>>
resolveVars == <<collection, request, resolution>>

----------------------------------------------------------------------------
(* Bounds *)

MaxFields == 2      \* declared fields per model in SpecFields
MaxBuilds == 2      \* class declarations per behaviour
MaxRecords == 2     \* documents in the collection
MaxFirst == 3       \* largest `first` / `last` argument tried

----------------------------------------------------------------------------
(* Model schemas *)

\* Field names a drawn model may declare.  "first" is also the name of a
\* pagination argument of every connection field.
FieldNames == {"headline", "email", "first"}

\* The kinds of model field the converter distinguishes:
\*   scalar       a required scalar      -> Field(NonNull(Scalar))
\*   scalar_null  a nullable scalar      -> Field(Scalar)
\*   list         a list of scalars      -> Field(List(Scalar))
\*   reference    a (list of) reference  -> Dynamic thunk over the registry
\*   unsupported  no converter           -> omitted
Kinds == {"scalar", "scalar_null", "list", "reference", "unsupported"}

Descriptor(n, k) == [name |-> n, kind |-> k]

Range(s) == {s[i] : i \in DOMAIN s}

\* Every declared-field list of at most MaxFields distinctly named fields.
ModelSchemas ==
    UNION {{s \in [1..n -> [name : FieldNames, kind : Kinds]] :
               \A i, j \in 1..n : i # j => s[i].name # s[j].name}
           : n \in 0..MaxFields}

\* The models of the test suite (tests/models.py as used by test_query.py).
Models == {"Article", "Editor"}

FixtureSchema ==
    [m \in Models |->
        IF m = "Article"
        THEN <<Descriptor("headline", "scalar"), Descriptor("editor", "reference")>>
        ELSE <<Descriptor("first", "scalar"), Descriptor("email", "scalar")>>]

get_model_fields(model) == schema[model]

----------------------------------------------------------------------------
(* Field converter *)

\* The falsy result of the converter: no field.
NoField == [cls |-> "None", type |-> "None"]

\* What a model field converts to, as yank_fields_from_attrs(_as=Field)
\* leaves it: a Field whose _type is NonNull / List (both have _of_type), a
\* Field whose _type is the bare scalar class (no _of_type), a Dynamic (no
\* _type attribute), or nothing.
convert_mongoengine_field(field, reg) ==
    CASE field.kind = "scalar"      -> [cls |-> "Field", type |-> "NonNull"]
      [] field.kind = "scalar_null" -> [cls |-> "Field", type |-> "Scalar"]
      [] field.kind = "list"        -> [cls |-> "Field", type |-> "List"]
      [] field.kind = "reference"   -> [cls |-> "Dynamic", type |-> "None"]
      [] OTHER                      -> NoField

----------------------------------------------------------------------------
(* types.py: construct_fields *)

\* Mutant: a field named in both only_fields and exclude_fields is kept.
construct_fields_only_wins(model, reg, only_fields, exclude_fields) ==
    LET _model_fields == get_model_fields(model)
        is_not_in_only(f) == only_fields # {} /\ f.name \notin only_fields
        is_excluded(f) == f.name \in exclude_fields /\ f.name \notin only_fields
        keep(f) == /\ ~(is_not_in_only(f) \/ is_excluded(f))
                   /\ convert_mongoengine_field(f, reg) # NoField
        kept == SelectSeq(_model_fields, keep)
    IN  [i \in 1..Len(kept) |->
            [name |-> kept[i].name,
             field |-> convert_mongoengine_field(kept[i], reg)]]

\* Mutant: the `if not converted: continue` test is missing.
construct_fields_keeps_unconverted(model, reg, only_fields, exclude_fields) ==
    LET _model_fields == get_model_fields(model)
        is_not_in_only(f) == only_fields # {} /\ f.name \notin only_fields
        is_excluded(f) == f.name \in exclude_fields
        keep(f) == ~(is_not_in_only(f) \/ is_excluded(f))
        kept == SelectSeq(_model_fields, keep)
    IN  [i \in 1..Len(kept) |->
            [name |-> kept[i].name,
             field |-> convert_mongoengine_field(kept[i], reg)]]

\* The OrderedDict of converted fields, as a sequence of (name, field) in
\* the order of the model's fields.
construct_fields(model, reg, only_fields, exclude_fields) ==
    LET _model_fields == get_model_fields(model)
        is_not_in_only(f) == only_fields # {} /\ f.name \notin only_fields
        is_excluded(f) == f.name \in exclude_fields
        keep(f) == /\ ~(is_not_in_only(f) \/ is_excluded(f))
                   /\ convert_mongoengine_field(f, reg) # NoField
        kept == SelectSeq(_model_fields, keep)
    IN  [i \in 1..Len(kept) |->
            [name |-> kept[i].name,
             field |-> convert_mongoengine_field(kept[i], reg)]]

FieldKeys(fields) == {fields[i].name : i \in DOMAIN fields}

----------------------------------------------------------------------------
(* fields.py: MongoengineConnectionField.default_filter_args and args *)

\* hasattr(field, '_type'): a Field has it, a Dynamic does not.
has_type(field) == field.cls = "Field"

\* field._type._of_type exists on NonNull and List, not on a scalar class.
has_of_type(field) == field.type \in {"NonNull", "List"}

\* The reduce over self.fields.items(): every field with a _type contributes
\* name -> field._type._of_type(); the attribute lookup raises
\* AttributeError when _type is a bare scalar class.
default_filter_args(fields) ==
    LET typed == {i \in DOMAIN fields : has_type(fields[i].field)}
    IN  IF \E i \in typed : ~has_of_type(fields[i].field)
        THEN [ok |-> FALSE, error |-> "AttributeError", keys |-> {}]
        ELSE [ok |-> TRUE, error |-> "",
              keys |-> {fields[i].name : i \in typed}]

\* The pagination arguments ConnectionField.__init__ always declares.
PaginationArgs == {"before", "after", "first", "last"}

\* Arguments a schema author may declare on the field besides those.
DeclaredArgNames == {"headline", "order"}

\* graphene.types.argument.to_arguments(args, extra_args): the base
\* arguments then the extra ones are added to one table; a name already in
\* the table fails the assertion 'More than one Argument have same name'.
to_arguments(base_args, extra_args) ==
    IF base_args \cap extra_args # {}
    THEN [ok |-> FALSE, error |-> "AssertionError", origin |-> <<>>]
    ELSE [ok |-> TRUE, error |-> "",
          origin |-> [n \in base_args \cup extra_args |->
                         IF n \in base_args THEN "base" ELSE "filter"]]

\* Mutant: the derived filter arguments are left out of the table.
args_base_only(base_args, fields) ==
    to_arguments(base_args, {})

\* The args property: to_arguments(self._base_args or {}, default_filter_args).
args(base_args, fields) ==
    LET filters == default_filter_args(fields)
    IN  IF ~filters.ok
        THEN [ok |-> FALSE, error |-> filters.error, origin |-> <<>>]
        ELSE to_arguments(base_args, filters.keys)

----------------------------------------------------------------------------
(* SpecFields *)

NoOType == [called |-> FALSE, only_fields |-> {}, exclude_fields |-> {},
            fields |-> <<>>]
NoConnField == [bound |-> FALSE, base_args |-> {},
                filter_args |-> [ok |-> TRUE, error |-> "", keys |-> {}],
                args |-> [ok |-> TRUE, error |-> "", origin |-> <<>>]]

\* construct_fields(model, registry, only_fields, exclude_fields) for the
\* drawn model; a fresh type has no connection field bound to it yet.
ConstructFields ==
    \E only_fields \in SUBSET FieldNames, exclude_fields \in SUBSET FieldNames :
        /\ ~otype.called
        /\ otype' = [called |-> TRUE,
                     only_fields |-> only_fields,
                     exclude_fields |-> exclude_fields,
                     fields |-> construct_fields("Article", "global",
                                                 only_fields, exclude_fields)]
        /\ conn_field' = NoConnField
        /\ UNCHANGED <<schema, typeVars, resolveVars>>

\* A MongoengineConnectionField over the type, its args property read.
ConnectionFieldArgs ==
    \E declared \in SUBSET DeclaredArgNames :
        LET base_args == PaginationArgs \cup declared
        IN  /\ otype.called /\ ~conn_field.bound
            /\ conn_field' = [bound |-> TRUE,
                              base_args |-> base_args,
                              filter_args |-> default_filter_args(otype.fields),
                              args |-> args(base_args, otype.fields)]
            /\ UNCHANGED <<schema, otype, typeVars, resolveVars>>

----------------------------------------------------------------------------
(* Classes and values of the type system *)

\* Document classes known to the store.  FeaturedArticle subclasses Article.
DocumentClasses == Models \cup {"FeaturedArticle"}

IsSubclass(c, base) == c = base \/ (c = "FeaturedArticle" /\ base = "Article")

\* utils.is_valid_mongoengine_model: the argument is a document class.
is_valid_mongoengine_model(model) == model \in DocumentClasses

\* Registry instances: the process-wide one and one passed explicitly.
RegistryIds == {"global", "local"}

\* isinstance(registry, Registry)
is_registry(reg) == reg \in RegistryIds

get_global_registry == "global"

\* issubclass(interface, Node)
is_node_interface(interface) == interface \in {"Node"}

\* issubclass(connection, Connection), for the classes a Meta may name.
is_connection(connection) == connection.base = "Connection"

NoConnection == [kind |-> "None", name |-> "", node |-> 0, base |-> ""]
\* An explicitly supplied connection class: a Connection subclass, or not.
GivenConnection == [kind |-> "given", name |-> "ArticleConnection", node |-> 0,
                    base |-> "Connection"]
NotAConnection == [kind |-> "given", name |-> "Article", node |-> 0,
                   base |-> "object"]

\* connection_class.create_type(name, node=cls): a new subclass of
\* connection_class, itself a Connection, named `name`, over node `cls`.
create_type(connection_class, name, cls) ==
    [kind |-> connection_class, name |-> name, node |-> cls,
     base |-> "Connection"]

ClassName(model) == IF model = "Editor" THEN "EditorNode" ELSE "ArticleNode"

EmptyRegistry == [m \in Models |-> {}]

\* Registry.register(cls): the registry maps cls._meta.model to cls.
register(regs, reg, model, cls) ==
    [regs EXCEPT ![reg] = [@ EXCEPT ![model] = {cls}]]

----------------------------------------------------------------------------
(* types.py: MongoengineObjectType.__init_subclass_with_meta__ *)

NoMeta == [model |-> "", registry |-> "", fields |-> <<>>,
           connection |-> NoConnection]

Failed(msg) == [ok |-> FALSE, error |-> msg, meta |-> NoMeta,
                registered |-> FALSE]

\* Mutant: an interface that is a Node requires a connection even when the
\* Meta says use_connection = False.
init_subclass_with_meta_node_forces(cls, model, reg, skip_registry, only_fields, exclude_fields, connection, connection_class, use_connection, interfaces) ==
    IF ~is_valid_mongoengine_model(model)
    THEN Failed("You need to pass a valid Mongoengine Model")
    ELSE
    LET registry1 == IF reg = "None" THEN get_global_registry ELSE reg
    IN  IF ~is_registry(registry1)
        THEN Failed("The attribute registry needs to be an instance of Registry")
        ELSE
        LET mongoengine_fields ==
                construct_fields(model, registry1, only_fields, exclude_fields)
            use_connection1 ==
                IF use_connection = "True" THEN TRUE
                ELSE \E interface \in interfaces : is_node_interface(interface)
            connection_class1 ==
                IF connection_class = "None" THEN "Connection"
                ELSE connection_class
            connection1 ==
                IF use_connection1 /\ connection = NoConnection
                THEN create_type(connection_class1, ClassName(model) \o "Connection", cls)
                ELSE connection
        IN  IF connection1 # NoConnection /\ ~is_connection(connection1)
            THEN Failed("The connection must be a Connection")
            ELSE [ok |-> TRUE, error |-> "",
                  meta |-> [model |-> model, registry |-> registry1,
                            fields |-> mongoengine_fields,
                            connection |-> connection1],
                  registered |-> ~skip_registry]

\* Mutant: the class is registered before the connection is validated, so a
\* declaration that fails on its connection is already in the registry.
init_subclass_with_meta_registers_early(cls, model, reg, skip_registry, only_fields, exclude_fields, connection, connection_class, use_connection, interfaces) ==
    IF ~is_valid_mongoengine_model(model)
    THEN Failed("You need to pass a valid Mongoengine Model")
    ELSE
    LET registry1 == IF reg = "None" THEN get_global_registry ELSE reg
    IN  IF ~is_registry(registry1)
        THEN Failed("The attribute registry needs to be an instance of Registry")
        ELSE
        LET mongoengine_fields ==
                construct_fields(model, registry1, only_fields, exclude_fields)
            use_connection1 ==
                IF use_connection = "None" /\ interfaces # {}
                THEN \E interface \in interfaces : is_node_interface(interface)
                ELSE use_connection = "True"
            connection_class1 ==
                IF connection_class = "None" THEN "Connection"
                ELSE connection_class
            connection1 ==
                IF use_connection1 /\ connection = NoConnection
                THEN create_type(connection_class1, ClassName(model) \o "Connection", cls)
                ELSE connection
        IN  IF connection1 # NoConnection /\ ~is_connection(connection1)
            THEN [ok |-> FALSE, error |-> "The connection must be a Connection",
                  meta |-> [NoMeta EXCEPT !.model = model, !.registry = registry1],
                  registered |-> ~skip_registry]
            ELSE [ok |-> TRUE, error |-> "",
                  meta |-> [model |-> model, registry |-> registry1,
                            fields |-> mongoengine_fields,
                            connection |-> connection1],
                  registered |-> ~skip_registry]

\* The declaration of class `cls` with the given Meta options: the outcome
\* of the assertions, the _meta that is stored, and whether the class is
\* registered (the last statement, reached only when nothing raised).
\* use_connection is "None", "True" or "False"; reg is "None" or a value.
init_subclass_with_meta(cls, model, reg, skip_registry, only_fields, exclude_fields, connection, connection_class, use_connection, interfaces) ==
    IF ~is_valid_mongoengine_model(model)
    THEN Failed("You need to pass a valid Mongoengine Model")
    ELSE
    LET registry1 == IF reg = "None" THEN get_global_registry ELSE reg
    IN  IF ~is_registry(registry1)
        THEN Failed("The attribute registry needs to be an instance of Registry")
        ELSE
        LET mongoengine_fields ==
                construct_fields(model, registry1, only_fields, exclude_fields)
            use_connection1 ==
                IF use_connection = "None" /\ interfaces # {}
                THEN \E interface \in interfaces : is_node_interface(interface)
                ELSE use_connection = "True"
            connection_class1 ==
                IF connection_class = "None" THEN "Connection"
                ELSE connection_class
            connection1 ==
                IF use_connection1 /\ connection = NoConnection
                THEN create_type(connection_class1, ClassName(model) \o "Connection", cls)
                ELSE connection
        IN  IF connection1 # NoConnection /\ ~is_connection(connection1)
            THEN Failed("The connection must be a Connection")
            ELSE [ok |-> TRUE, error |-> "",
                  meta |-> [model |-> model, registry |-> registry1,
                            fields |-> mongoengine_fields,
                            connection |-> connection1],
                  registered |-> ~skip_registry]

----------------------------------------------------------------------------
(* types.py: MongoengineObjectType.is_type_of *)

\* Runtime values handed to is_type_of: an instance of a declared output
\* type, a document of some class, or a value that is neither.
Roots ==
    {[kind |-> "objecttype", cls |-> c, model |-> ""] : c \in 1..MaxBuilds}
    \cup {[kind |-> "document", cls |-> 0, model |-> m] : m \in DocumentClasses}
    \cup {[kind |-> "plain", cls |-> 0, model |-> ""]}

\* Mutant: a value that is no document is answered False instead of raising.
is_type_of_no_raise(cls, meta, root) ==
    IF root.kind = "objecttype" /\ root.cls = cls
    THEN [ok |-> TRUE, value |-> TRUE]
    ELSE [ok |-> TRUE,
          value |-> root.kind = "document" /\ IsSubclass(root.model, meta.model)]

\* is_type_of(cls, root, info) for the class `cls` whose _meta is `meta`.
is_type_of(cls, meta, root) ==
    IF root.kind = "objecttype" /\ root.cls = cls        \* isinstance(root, cls)
    THEN [ok |-> TRUE, value |-> TRUE]
    ELSE IF ~(root.kind = "document" /\ is_valid_mongoengine_model(root.model))
         THEN [ok |-> FALSE, value |-> FALSE]   \* raise Exception
         ELSE [ok |-> TRUE, value |-> IsSubclass(root.model, meta.model)]

----------------------------------------------------------------------------
(* Class declarations, registry resets and type checks *)

NoBuilt ==
    [declared |-> FALSE, cls |-> 0, model |-> "", registry |-> "",
     skip_registry |-> FALSE, only_fields |-> {}, exclude_fields |-> {},
     connection |-> NoConnection, connection_class |-> "",
     use_connection |-> "", interfaces |-> {}, outcome |-> Failed("")]

NoTypeCheck == [called |-> FALSE, root |-> [kind |-> "", cls |-> 0, model |-> ""],
                result |-> [ok |-> FALSE, value |-> FALSE]]

\* `class X(MongoengineObjectType): class Meta: ...` -- the whole of
\* __init_subclass_with_meta__, the registration at its end included.
Declare(model, reg, skip_registry, only_fields, exclude_fields, connection, connection_class, use_connection, interfaces) ==
    LET cls == ntypes + 1
        outcome == init_subclass_with_meta(cls, model, reg, skip_registry,
                       only_fields, exclude_fields, connection,
                       connection_class, use_connection, interfaces)
    IN  /\ ntypes < MaxBuilds
        /\ ntypes' = cls
        /\ built' = [declared |-> TRUE, cls |-> cls, model |-> model,
                     registry |-> reg, skip_registry |-> skip_registry,
                     only_fields |-> only_fields,
                     exclude_fields |-> exclude_fields,
                     connection |-> connection,
                     connection_class |-> connection_class,
                     use_connection |-> use_connection,
                     interfaces |-> interfaces, outcome |-> outcome]
        /\ registry' = IF outcome.registered
                       THEN register(registry, outcome.meta.registry,
                                     outcome.meta.model, cls)
                       ELSE registry
        \* history: a declaration that completed and was not told to skip
        /\ expected' =
              IF outcome.ok /\ ~skip_registry
              THEN [expected EXCEPT
                      ![IF reg = "None" THEN "global" ELSE reg][model] = {cls}]
              ELSE expected
        /\ type_check' = NoTypeCheck
        /\ UNCHANGED <<schema, fieldVars, resolveVars>>

Interfaces == {"Node", "Other"}
ModelOptions == Models \cup {"NotAModel"}
RegistryOptions == {"None", "local", "NotARegistry"}
ConnectionOptions == {NoConnection, GivenConnection, NotAConnection}
ConnectionClassOptions == {"None", "CountedConnection"}
UseConnectionOptions == {"None", "True", "False"}

\* A declaration with any connection-related Meta options, kept out of the
\* registry (skip_registry = True).
DeclareType ==
    \E model \in ModelOptions, connection \in ConnectionOptions,
       connection_class \in ConnectionClassOptions,
       use_connection \in UseConnectionOptions,
       interfaces \in SUBSET Interfaces :
        Declare(model, "None", TRUE, {}, {}, connection,
                connection_class, use_connection, interfaces)

\* A declaration with any model, registry and skip_registry options.
DeclareRegistered ==
    \E model \in ModelOptions, reg \in RegistryOptions,
       skip_registry \in BOOLEAN, exclude_fields \in {{}, {"headline"}},
       connection \in {NoConnection, NotAConnection},
       interfaces \in {{}, {"Node"}} :
        Declare(model, reg, skip_registry, {}, exclude_fields, connection,
                "None", "None", interfaces)

\* Registry reset (reset_global_registry / a fresh local registry).
ResetRegistry ==
    \E reg \in RegistryIds :
        /\ registry' = [registry EXCEPT ![reg] = EmptyRegistry]
        /\ expected' = [expected EXCEPT ![reg] = EmptyRegistry]
        /\ UNCHANGED <<schema, ntypes, built, type_check, fieldVars, resolveVars>>

\* The execution engine asks the last declared type whether a value is its.
IsTypeOf ==
    \E root \in Roots :
        /\ built.declared /\ built.outcome.ok
        /\ type_check' = [called |-> TRUE, root |-> root,
                          result |-> is_type_of(built.cls, built.outcome.meta, root)]
        /\ UNCHANGED <<schema, registry, ntypes, built, expected, fieldVars, resolveVars>>

----------------------------------------------------------------------------
(* The store and the arguments of a query *)

Headlines == {"Hello", "World"}
Editors == {"Penny", "Grant"}

\* The fields of the stored documents a filter may name.
DocumentFields == {"headline", "editor"}

\* Every collection of at most MaxRecords documents; a document's id is its
\* insertion position.
Collections ==
    UNION {{c \in [1..n -> [id : 1..n, headline : Headlines, editor : Editors]] :
               \A i \in 1..n : c[i].id = i}
           : n \in 0..MaxRecords}

\* A cursor is the encoding of "arrayconnection:<offset>"; anything else a
\* client sends does not decode to an offset.
offset_to_cursor(offset) == <<"arrayconnection", offset>>
BadCursor == <<"garbage", 0>>

\* The keyword arguments of a resolution.  Each is a set: empty when the
\* query does not supply the argument, else holding its value.
ArgSets ==
    [first : {{}} \cup {{k} : k \in (-1)..MaxFirst},
     last : {{}, {1}},
     after : {{}, {offset_to_cursor(0)}, {BadCursor}},
     before : {{}, {offset_to_cursor(1)}},
     headline : {{}} \cup {{h} : h \in Headlines},
     editor : {{}} \cup {{e} : e \in Editors}]

\* The names present in **args.
Supplied(a) == {k \in DOMAIN a : a[k] # {}}

TheValue(s) == CHOOSE v \in s : TRUE

\* What the upstream resolver may return: None, an empty list, or a
\* non-empty run of documents.
Upstreams(coll) ==
    {[is_none |-> TRUE, items |-> <<>>], [is_none |-> FALSE, items |-> <<>>]}
    \cup {[is_none |-> FALSE, items |-> SubSeq(coll, i, j)] :
            i \in 1..Len(coll), j \in 1..Len(coll)}

\* model.objects().filter(**kwargs), evaluated: the documents whose fields
\* equal every keyword, in order; a keyword that names no field of the
\* document is an invalid query.
filter(coll, a) ==
    IF ~(Supplied(a) \subseteq DocumentFields)
    THEN [ok |-> FALSE, error |-> "InvalidQueryError", items |-> <<>>]
    ELSE LET matches(doc) == \A k \in Supplied(a) : doc[k] \in a[k]
         IN  [ok |-> TRUE, error |-> "", items |-> SelectSeq(coll, matches)]

----------------------------------------------------------------------------
(* fields.py: MongoengineConnectionField.get_query *)

\* Mutant: the keywords are ignored and the whole collection is returned.
get_query_unfiltered(coll, a) ==
    [filters |-> {}, result |-> [ok |-> TRUE, error |-> "", items |-> coll]]

\* get_query(model, info, **args): the filter keywords handed to the store
\* and the query's result.
get_query(coll, a) ==
    IF Supplied(a) # {}
    THEN [filters |-> Supplied(a), result |-> filter(coll, a)]
    ELSE [filters |-> {},
          result |-> [ok |-> TRUE, error |-> "", items |-> coll]]

----------------------------------------------------------------------------
(* graphql_relay: connection_from_list_slice, as connection_resolver calls it *)

Max2(x, y) == IF x >= y THEN x ELSE y
Min2(x, y) == IF x <= y THEN x ELSE y

\* Python's s[lo:hi] for any integers lo, hi.
PySlice(s, lo, hi) ==
    LET n == Len(s)
        norm(i) == IF i < 0 THEN Max2(n + i, 0) ELSE Min2(i, n)
    IN  IF norm(lo) < norm(hi) THEN SubSeq(s, norm(lo) + 1, norm(hi)) ELSE <<>>

\* get_offset_with_default(cursor, default): the cursor's offset, or the
\* default when there is no cursor or it does not decode.
get_offset_with_default(cursor, default_offset) ==
    IF cursor = {} THEN default_offset
    ELSE LET c == TheValue(cursor)
         IN  IF c[1] = "arrayconnection" THEN c[2] ELSE default_offset

\* connection_from_list_slice(list_slice, args, slice_start, list_length,
\* list_slice_length): the page of the list the arguments select.
connection_from_list_slice(list_slice, a, slice_start, list_length, list_slice_length) ==
    LET slice_end == slice_start + list_slice_length
        before_offset == get_offset_with_default(a.before, list_length)
        after_offset == get_offset_with_default(a.after, -1)
        start0 == Max2(Max2(slice_start - 1, after_offset), -1) + 1
        end0 == Min2(Min2(slice_end, before_offset), list_length)
        end_offset == IF a.first # {} THEN Min2(end0, start0 + TheValue(a.first))
                      ELSE end0
        start_offset == IF a.last # {} THEN Max2(start0, end_offset - TheValue(a.last))
                        ELSE start0
        _slice == PySlice(list_slice, Max2(start_offset - slice_start, 0),
                          list_slice_length - (slice_end - end_offset))
        edges == [i \in 1..Len(_slice) |->
                    [node |-> _slice[i],
                     cursor |-> offset_to_cursor(start_offset + i - 1)]]
        lower_bound == IF a.after # {} THEN after_offset + 1 ELSE 0
        upper_bound == IF a.before # {} THEN before_offset ELSE list_length
    IN  [edges |-> edges,
         has_previous_page |-> a.last # {} /\ start_offset > lower_bound,
         has_next_page |-> a.first # {} /\ end_offset < upper_bound,
         start_cursor |-> IF edges = <<>> THEN {} ELSE {edges[1].cursor},
         end_cursor |-> IF edges = <<>> THEN {} ELSE {edges[Len(edges)].cursor}]

----------------------------------------------------------------------------
(* fields.py: MongoengineConnectionField.connection_resolver *)

NoPage == [edges |-> <<>>, has_previous_page |-> FALSE, has_next_page |-> FALSE,
           start_cursor |-> {}, end_cursor |-> {}]

\* Mutant: the store is queried on every resolution and the upstream
\* result, when there is one, is used afterwards.
connection_resolver_always_queries(upstream, coll, a) ==
    LET falsy == upstream.is_none \/ upstream.items = <<>>
        query == get_query(coll, a)
        iterable == IF falsy THEN query.result.items ELSE upstream.items
        _len == Len(iterable)
    IN  IF falsy /\ ~query.result.ok
        THEN [ok |-> FALSE, error |-> query.result.error,
              calls |-> <<"resolver", "get_query">>, filters |-> query.filters,
              page |-> NoPage, iterable |-> <<>>, length |-> 0]
        ELSE [ok |-> TRUE, error |-> "",
              calls |-> <<"resolver", "get_query">>, filters |-> query.filters,
              page |-> connection_from_list_slice(iterable, a, 0, _len, _len),
              iterable |-> iterable, length |-> _len]

\* Mutant: connection.length is the size of the page, not of the result.
connection_resolver_page_length(upstream, coll, a) ==
    LET falsy == upstream.is_none \/ upstream.items = <<>>
        query == get_query(coll, a)
        iterable == IF falsy THEN query.result.items ELSE upstream.items
        _len == Len(iterable)
        page == connection_from_list_slice(iterable, a, 0, _len, _len)
    IN  IF falsy /\ ~query.result.ok
        THEN [ok |-> FALSE, error |-> query.result.error,
              calls |-> <<"resolver", "get_query">>, filters |-> query.filters,
              page |-> NoPage, iterable |-> <<>>, length |-> 0]
        ELSE [ok |-> TRUE, error |-> "",
              calls |-> IF falsy THEN <<"resolver", "get_query">>
                        ELSE <<"resolver">>,
              filters |-> IF falsy THEN query.filters ELSE {},
              page |-> page, iterable |-> iterable, length |-> Len(page.edges)]

\* connection_resolver(resolver, connection, model, root, info, **args):
\* `upstream` is what resolver(root, info, **args) returns.  `calls` lists
\* the collaborators called, in order; `filters` the keywords of the store
\* query if one was issued.  len() of a query the store rejects raises.
connection_resolver(upstream, coll, a) ==
    LET falsy == upstream.is_none \/ upstream.items = <<>>     \* not iterable
        query == get_query(coll, a)
        iterable == IF falsy THEN query.result.items ELSE upstream.items
        _len == Len(iterable)
    IN  IF falsy /\ ~query.result.ok
        THEN [ok |-> FALSE, error |-> query.result.error,
              calls |-> <<"resolver", "get_query">>, filters |-> query.filters,
              page |-> NoPage, iterable |-> <<>>, length |-> 0]
        ELSE [ok |-> TRUE, error |-> "",
              calls |-> IF falsy THEN <<"resolver", "get_query">>
                        ELSE <<"resolver">>,
              filters |-> IF falsy THEN query.filters ELSE {},
              page |-> connection_from_list_slice(iterable, a, 0, _len, _len),
              iterable |-> iterable, length |-> _len]

NoArgs == [first |-> {}, last |-> {}, after |-> {}, before |-> {},
           headline |-> {}, editor |-> {}]
NoRequest == [upstream |-> [is_none |-> TRUE, items |-> <<>>], args |-> NoArgs]
NoResolution == [called |-> FALSE,
                 outcome |-> [ok |-> FALSE, error |-> "", calls |-> <<>>,
                              filters |-> {}, page |-> NoPage,
                              iterable |-> <<>>, length |-> 0]]

\* The execution engine resolves the connection field for the request.
Resolve ==
    /\ ~resolution.called
    /\ resolution' = [called |-> TRUE,
                      outcome |-> connection_resolver(request.upstream,
                                                      collection, request.args)]
    /\ UNCHANGED <<schema, fieldVars, typeVars, collection, request>>

----------------------------------------------------------------------------
(* Specifications *)

InitTypes ==
    /\ registry = [r \in RegistryIds |-> EmptyRegistry]
    /\ expected = [r \in RegistryIds |-> EmptyRegistry]
    /\ ntypes = 0
    /\ built = NoBuilt
    /\ type_check = NoTypeCheck

InitFieldsIdle == otype = NoOType /\ conn_field = NoConnField

InitResolveIdle ==
    collection = <<>> /\ request = NoRequest /\ resolution = NoResolution

\* SpecFields: the model "Article" has any small schema.
InitFields ==
    /\ schema \in {[m \in Models |-> IF m = "Article" THEN s ELSE FixtureSchema[m]]
                   : s \in ModelSchemas}
    /\ InitFieldsIdle /\ InitTypes /\ InitResolveIdle

NextFields == ConstructFields \/ ConnectionFieldArgs

SpecFields == InitFields /\ [][NextFields]_vars

\* Spec and SpecRegistry: the models of the test suite.
Init == schema = FixtureSchema /\ InitFieldsIdle /\ InitTypes /\ InitResolveIdle

Next == DeclareType \/ IsTypeOf

Spec == Init /\ [][Next]_vars

NextRegistry == DeclareRegistered \/ ResetRegistry

SpecRegistry == Init /\ [][NextRegistry]_vars

\* SpecResolve: any small collection, upstream result and arguments.
InitResolve ==
    /\ schema = FixtureSchema /\ InitFieldsIdle /\ InitTypes
    /\ collection \in Collections
    /\ request \in {[upstream |-> u, args |-> a] :
                        u \in Upstreams(collection), a \in ArgSets}
    /\ resolution = NoResolution

NextResolve == Resolve

SpecResolve == InitResolve /\ [][NextResolve]_vars

----------------------------------------------------------------------------
(* Properties of construct_fields and of the field's arguments (SpecFields) *)

DeclaredFields == schema["Article"]
DeclaredNames == {DeclaredFields[i].name : i \in DOMAIN DeclaredFields}

\* The declared position of a field name.
Position(name) == CHOOSE i \in DOMAIN DeclaredFields : DeclaredFields[i].name = name

\* The names of the declared fields the converter omits.
OmittedNames ==
    {DeclaredFields[i].name : i \in
        {j \in DOMAIN DeclaredFields :
            convert_mongoengine_field(DeclaredFields[j], "global") = NoField}}

\* C1: construct_fields never returns a field named in exclude_fields, also
\* when only_fields names it too, and with a non-empty only_fields returns no
\* field outside only_fields.
C1_ExcludeWins ==
    otype.called =>
        /\ FieldKeys(otype.fields) \cap otype.exclude_fields = {}
        /\ otype.only_fields # {} =>
               FieldKeys(otype.fields) \subseteq otype.only_fields

\* C1 witness: a convertible field is named in both sets and is dropped
\* while another field is kept.
C1_Witness ==
    /\ otype.called
    /\ otype.fields # <<>>
    /\ \E n \in otype.only_fields \cap otype.exclude_fields :
           n \in DeclaredNames \ OmittedNames

\* C2: with empty only_fields and exclude_fields the N declared fields, K of
\* them of omitted kinds, give exactly the N-K others in declared order, and
\* no omitted name is a key of the default filter-argument table.
C2_OmittedFieldsDropped ==
    (otype.called /\ otype.only_fields = {} /\ otype.exclude_fields = {}) =>
        /\ Len(otype.fields) = Len(DeclaredFields) - Cardinality(OmittedNames)
        /\ FieldKeys(otype.fields) = DeclaredNames \ OmittedNames
        /\ \A i, j \in DOMAIN otype.fields :
               i < j => Position(otype.fields[i].name) < Position(otype.fields[j].name)
        /\ \A i \in DOMAIN otype.fields : otype.fields[i].field # NoField
        /\ (conn_field.bound /\ conn_field.filter_args.ok) =>
               conn_field.filter_args.keys \cap OmittedNames = {}

\* C2 witness: two declared fields, the first of an omitted kind, and the
\* filter table of the resulting type computed.
C2_Witness ==
    /\ otype.called /\ otype.only_fields = {} /\ otype.exclude_fields = {}
    /\ Len(DeclaredFields) = 2 /\ DeclaredFields[1].kind = "unsupported"
    /\ Len(otype.fields) = 1
    /\ conn_field.bound /\ conn_field.filter_args.ok
    /\ conn_field.filter_args.keys # {}

\* C5 as claimed: the arguments are the filter table merged with the base
\* arguments, and on a name collision computing them succeeds and keeps the
\* base argument.
C5_BaseWinsOnCollision ==
    (conn_field.bound /\ conn_field.filter_args.ok) =>
        /\ conn_field.args.ok
        /\ DOMAIN conn_field.args.origin =
               conn_field.base_args \cup conn_field.filter_args.keys
        /\ \A n \in conn_field.base_args : conn_field.args.origin[n] = "base"

\* C5 amended: whenever the arguments can be computed they are exactly the
\* filter table merged with the base arguments; they can be computed when
\* the table can and no name is in both; on a name collision computing them
\* fails.
C5_MergeFailsOnCollision ==
    conn_field.bound =>
        /\ conn_field.args.ok =>
               /\ DOMAIN conn_field.args.origin =
                      conn_field.base_args \cup conn_field.filter_args.keys
               /\ \A n \in DOMAIN conn_field.args.origin :
                      conn_field.args.origin[n] =
                          IF n \in conn_field.base_args THEN "base" ELSE "filter"
        /\ conn_field.filter_args.ok =>
               (conn_field.args.ok <=>
                    conn_field.base_args \cap conn_field.filter_args.keys = {})

\* C5 witness: a declared base argument has the name of a derived filter
\* argument, and computing the arguments failed.
C5_Witness ==
    /\ conn_field.bound /\ conn_field.filter_args.ok
    /\ "headline" \in conn_field.base_args \cap conn_field.filter_args.keys
    /\ ~conn_field.args.ok

----------------------------------------------------------------------------
(* Properties of class declarations (Spec, SpecRegistry) *)

HasNodeInterface == \E interface \in built.interfaces : is_node_interface(interface)

\* What C6 says of a declaration, given when a connection is required.
ConnectionAsRequired(required) ==
    /\ (built.connection # NoConnection /\ ~is_connection(built.connection)) =>
           ~built.outcome.ok
    /\ (built.connection = NoConnection /\ is_valid_mongoengine_model(built.model)) =>
           /\ built.outcome.ok
           /\ required =>
                  /\ built.outcome.meta.connection.name =
                         ClassName(built.model) \o "Connection"
                  /\ built.outcome.meta.connection.node = built.cls
                  /\ is_connection(built.outcome.meta.connection)
           /\ ~required => built.outcome.meta.connection = NoConnection

\* C6 as claimed: a connection is required if use_connection is set or any
\* interface is a Node.
C6_RequiredIfNodeInterface ==
    built.declared =>
        ConnectionAsRequired(built.use_connection = "True" \/ HasNodeInterface)

\* C6 amended: a connection is required if use_connection is true, or if
\* use_connection is not given and any interface is a Node; then, with no
\* explicit connection, the type gets a synthesized '<TypeName>Connection'
\* over itself; an explicit connection that is not a Connection fails the
\* declaration; not required and none supplied, the type has no connection.
C6_RequiredUnlessDisabled ==
    built.declared =>
        ConnectionAsRequired(
            \/ built.use_connection = "True"
            \/ (built.use_connection = "None" /\ HasNodeInterface))

\* C6 witness: a Node interface, nothing else said, and the synthesized
\* connection of the test suite's ArticleNode.
C6_Witness ==
    /\ built.declared /\ built.outcome.ok
    /\ built.use_connection = "None" /\ built.interfaces = {"Node"}
    /\ built.connection = NoConnection
    /\ built.outcome.meta.connection.name = "ArticleNodeConnection"
    /\ built.outcome.meta.connection.node = built.cls

\* isinstance(root, cls) and isinstance(root, cls._meta.model), stated on
\* the value.
IsInstanceOfType == type_check.root.kind = "objecttype" /\ type_check.root.cls = built.cls
IsInstanceOfModel ==
    /\ type_check.root.kind = "document"
    /\ IsSubclass(type_check.root.model, built.outcome.meta.model)

\* C7: is_type_of is true for an instance of the type or of the bound model,
\* raises for a value that is neither an instance of the type nor a
\* document, and is false for a document of another model.
C7_IsTypeOf ==
    type_check.called =>
        /\ (IsInstanceOfType \/ IsInstanceOfModel) =>
               (type_check.result.ok /\ type_check.result.value)
        /\ (~IsInstanceOfType /\ type_check.root.kind # "document") =>
               ~type_check.result.ok
        /\ (type_check.root.kind = "document" /\ ~IsInstanceOfModel) =>
               (type_check.result.ok /\ ~type_check.result.value)

\* C7 witness: a value that is no document and no instance of the type.
C7_Witness ==
    /\ type_check.called
    /\ type_check.root.kind = "plain"
    /\ ~type_check.result.ok

\* C8: every registry holds at most one type per model, and holds exactly
\* the most recent type whose declaration, since the registry's last reset,
\* completed with skip_registry false; so a declaration that fails or skips
\* changes no registry.
C8_RegistryContents ==
    /\ registry = expected
    /\ \A r \in RegistryIds, m \in Models :
           /\ Cardinality(registry[r][m]) <= 1
           /\ registry[r][m] \subseteq 1..ntypes

\* C8 witness: the last declaration failed on its connection and the
\* registry still holds an earlier type for that model.
C8_Witness ==
    /\ built.declared /\ ~built.outcome.ok
    /\ built.connection = NotAConnection /\ ~built.skip_registry
    /\ built.model \in Models
    /\ registry["global"][built.model] = {1}

----------------------------------------------------------------------------
(* Properties of connection_resolver (SpecResolve) *)

UpstreamFalsy == request.upstream.is_none \/ request.upstream.items = <<>>

Nodes(edges) == [i \in DOMAIN edges |-> edges[i].node]

Outcome == resolution.outcome

\* C3: the envelope pages the whole result: with no pagination argument
\* all n records in order and no next or previous page; with first = k >= 0
\* alone the first min(k, n) records and a next page exactly when k < n;
\* always length = n and iterable = the whole result.
C3_PageOfWholeResult ==
    (resolution.called /\ Outcome.ok) =>
        LET n == Len(Outcome.iterable)
            paging == Supplied(request.args) \cap PaginationArgs
        IN  /\ Outcome.length = n
            /\ ~UpstreamFalsy => Outcome.iterable = request.upstream.items
            /\ paging = {} =>
                   /\ Nodes(Outcome.page.edges) = Outcome.iterable
                   /\ ~Outcome.page.has_next_page
                   /\ ~Outcome.page.has_previous_page
            /\ (paging = {"first"} /\ TheValue(request.args.first) >= 0) =>
                   LET k == TheValue(request.args.first)
                   IN  /\ Nodes(Outcome.page.edges) =
                              SubSeq(Outcome.iterable, 1, Min2(k, n))
                       /\ Outcome.page.has_next_page <=> k < n

\* C3 witness: two records, first = 1: one edge and a next page.
C3_Witness ==
    /\ resolution.called /\ Outcome.ok
    /\ Supplied(request.args) = {"first"} /\ request.args.first = {1}
    /\ Outcome.length = 2
    /\ Len(Outcome.page.edges) = 1
    /\ Outcome.page.has_next_page

\* The documents of the collection that match every supplied argument.
Matching ==
    {collection[i] : i \in
        {j \in DOMAIN collection :
            \A k \in Supplied(request.args) :
                collection[j][k] \in request.args[k]}}

\* C4: when the upstream resolver returns nothing and only filter arguments
\* are supplied, the edges are exactly the documents that match all of
\* them, each once, in collection order; with none supplied, all documents.
C4_EdgesAreMatches ==
    (resolution.called /\ UpstreamFalsy
        /\ Supplied(request.args) \subseteq DocumentFields) =>
        /\ Outcome.ok
        /\ Range(Nodes(Outcome.page.edges)) = Matching
        /\ Len(Outcome.page.edges) = Cardinality(Matching)
        /\ \A i, j \in DOMAIN Outcome.page.edges :
               i < j => Outcome.page.edges[i].node.id < Outcome.page.edges[j].node.id
        /\ Supplied(request.args) = {} =>
               Nodes(Outcome.page.edges) = collection

\* C4 witness: a filter that matches exactly one of two documents.
C4_Witness ==
    /\ resolution.called /\ request.upstream.is_none
    /\ Supplied(request.args) = {"headline"}
    /\ Len(collection) = 2
    /\ Len(Outcome.page.edges) = 1
    /\ Outcome.page.edges[1].node.headline \in request.args.headline

Count(calls, what) == Cardinality({i \in DOMAIN calls : calls[i] = what})

\* C9: every resolution calls the upstream resolver first and once; it
\* queries the store, after that and once, exactly when the resolver's
\* result is falsy; a non-empty result is the envelope's only source.
C9_ResolverThenQuery ==
    resolution.called =>
        /\ Len(Outcome.calls) >= 1 /\ Outcome.calls[1] = "resolver"
        /\ Count(Outcome.calls, "resolver") = 1
        /\ Count(Outcome.calls, "get_query") = (IF UpstreamFalsy THEN 1 ELSE 0)
        /\ ~UpstreamFalsy =>
               /\ Outcome.ok
               /\ Outcome.iterable = request.upstream.items
               /\ Outcome.filters = {}

\* C9 witness: the resolver returned documents and the store was not asked.
C9_Witness ==
    /\ resolution.called /\ ~UpstreamFalsy
    /\ Outcome.calls = <<"resolver">>
    /\ Outcome.length >= 1

\* C10 as claimed: the keywords of the store query never include a
\* pagination argument.
C10_NoPaginationInStoreQuery ==
    resolution.called => Outcome.filters \cap PaginationArgs = {}

====
